---- MODULE Spec2Model ----
(***************************************************************************)
(* The WebGPU Game-of-Life engine of first-try-webgpu.                     *)
(*                                                                         *)
(*   src/unnamed/part_000  the compute + render engine                     *)
(*   src/main.js:1-238     the render-only variant (no compute pass)       *)
(*                                                                         *)
(* The state is the grid uniform, the two cell-state storage buffers, the  *)
(* step counter, and the command buffers submitted to the device queue,    *)
(* which the device executes in submission order, pass by pass.            *)
(***************************************************************************)
EXTENDS Integers, Sequences, FiniteSets, TLC

VARIABLES
  variant,                \* "simulation" (part_000) or "renderOnly" (main.js)
  grid,                   \* the grid uniform, <<width, height>>
  cellStateStorageBuffer, \* [0..1 -> buffer]: 0 is buffer A, 1 is buffer B
  step,                   \* the step counter
  queue,                  \* command buffers submitted and not yet finished
  computed,               \* the head command buffer's compute pass has run
  lastSubmitted,          \* the command buffer of the latest updateGrid
  lastCompute,            \* the latest compute pass the device executed
  displayed,              \* the latest render pass the device executed
  lastWriter,             \* [0..1 -> frame of the compute pass that last wrote]
  seed,                   \* the content written to buffer A at initialization
  submitted,              \* command buffers given to device.queue.submit
  horizon,                \* frames this run is followed for
  host,                   \* the page: where main() is, errors shown, the interval timer
  inv                     \* the latest single evaluation of a shader function

vars == <<variant, grid, cellStateStorageBuffer, step, queue, computed,
          lastSubmitted, lastCompute, displayed, lastWriter, seed, submitted,
          horizon, host, inv>>

---------------------------------------------------------------------------
(* Bounds of the model *)

\* frames a run of the program is followed for
MaxStep == 4
\* frames a run seeded with a caller-supplied pattern is followed for
MaxPatternStep == 2
\* command buffers the device may have pending
MaxPending == 2
\* largest grid side of a run seeded with a caller-supplied pattern
MaxGrid == 5
\* largest number of cells of a grid a single invocation is evaluated on
MaxCells == 9
\* coordinates 0..MaxCoord and 2^32-MaxCoord..2^32-1 are given to cellIndex
\* calls of updateGrid that throw, in the runs that have any
MaxThrown == 2

MaxCoord == 2

None == [frame |-> 0]

---------------------------------------------------------------------------
(* u32: WGSL's 32-bit unsigned integers, kept as two 16-bit limbs <<hi, lo>> *)

Limb == 2^16

U32(n) == <<(n \div Limb) % Limb, n % Limb>>

U32Add(a, b) ==
  LET lo == a[2] + b[2]
      hi == a[1] + b[1] + (lo \div Limb)
  IN  <<hi % Limb, lo % Limb>>

\* a - b wraps around 2^32 in WGSL; it does not stop at 0
U32SubSaturating(a, b) ==
  IF a[1] < b[1] \/ (a[1] = b[1] /\ a[2] < b[2]) THEN <<0, 0>>
  ELSE LET lo == a[2] - b[2] + Limb
           hi == a[1] - b[1] + (Limb - 1) + (lo \div Limb)
       IN  <<hi % Limb, lo % Limb>>

U32Sub(a, b) ==
  LET lo == a[2] - b[2] + Limb
      hi == a[1] - b[1] + (Limb - 1) + (lo \div Limb)
  IN  <<hi % Limb, lo % Limb>>

\* a % m for a u32 a and a small positive m
U32Mod(a, m) == ((a[1] % m) * (Limb % m) + (a[2] % m)) % m

---------------------------------------------------------------------------
(* The simulation shader *)

WORKGROUP_SIZE == 8

\* Math.ceil(GRID_SIZE / WORKGROUP_SIZE)
WorkgroupCountFloor(gridSize) == gridSize \div WORKGROUP_SIZE

WORKGROUP_COUNT(gridSize) == (gridSize + WORKGROUP_SIZE - 1) \div WORKGROUP_SIZE

Cells(g) == 0 .. (g[1] * g[2] - 1)

\* fn cellIndex(cell: vec2u) -> u32; g is the grid uniform, cell is <<x, y>>
cellIndex(g, cell) == U32Mod(cell[2], g[2]) * g[1] + U32Mod(cell[1], g[1])

\* fn cellActive(x: u32, y: u32) -> u32, reading cellStateIn
cellActive(cellStateIn, g, x, y) == cellStateIn[cellIndex(g, <<x, y>>)]

\* the eight coordinates computeMain gives to cellActive, in its order
NeighbourCoords(cell) ==
  LET x == cell[1]
      y == cell[2]
      one == U32(1)
  IN  << <<U32Add(x, one), U32Add(y, one)>>,
         <<U32Add(x, one), y>>,
         <<U32Add(x, one), U32Sub(y, one)>>,
         <<x,              U32Sub(y, one)>>,
         <<U32Sub(x, one), U32Sub(y, one)>>,
         <<U32Sub(x, one), y>>,
         <<U32Sub(x, one), U32Add(y, one)>>,
         <<x,              U32Add(y, one)>> >>

\* the switch of computeMain: the value written for a neighbour count
RuleFallsThrough(activeNeighbors, state) ==
  IF activeNeighbors = 2 \/ activeNeighbors = 3 THEN 1 ELSE 0

RuleStuck(activeNeighbors, state) ==
  IF activeNeighbors = 2 \/ activeNeighbors = 3 THEN state ELSE 0

\* a default case that stores the count instead of 0
RuleStoresCount(activeNeighbors, state) ==
  CASE activeNeighbors = 2 -> state
    [] activeNeighbors = 3 -> 1
    [] OTHER -> activeNeighbors

Rule(activeNeighbors, state) ==
  CASE activeNeighbors = 2 -> state
    [] activeNeighbors = 3 -> 1
    [] OTHER -> 0

\* one invocation of computeMain; id is the global invocation id <<x, y>>
computeMain(cellStateIn, g, id) ==
  LET cell == <<U32(id[1]), U32(id[2])>>
      nb == NeighbourCoords(cell)
      activeNeighbors ==
        cellActive(cellStateIn, g, nb[1][1], nb[1][2]) +
        cellActive(cellStateIn, g, nb[2][1], nb[2][2]) +
        cellActive(cellStateIn, g, nb[3][1], nb[3][2]) +
        cellActive(cellStateIn, g, nb[4][1], nb[4][2]) +
        cellActive(cellStateIn, g, nb[5][1], nb[5][2]) +
        cellActive(cellStateIn, g, nb[6][1], nb[6][2]) +
        cellActive(cellStateIn, g, nb[7][1], nb[7][2]) +
        cellActive(cellStateIn, g, nb[8][1], nb[8][2])
      index == cellIndex(g, cell)
  IN  [ kind |-> "computeMain",
        id |-> id,
        reads |-> [k \in 1..8 |-> cellIndex(g, nb[k])],
        activeNeighbors |-> activeNeighbors,
        state |-> cellStateIn[index],
        index |-> index,
        value |-> Rule(activeNeighbors, cellStateIn[index]) ]

\* the global invocation ids of dispatchWorkgroups(countX, countY)
GlobalIds(countX, countY) ==
  (0 .. (countX * WORKGROUP_SIZE - 1)) \X (0 .. (countY * WORKGROUP_SIZE - 1))

\* the stores <<index, value>> of the invocations ids, all reading cellStateIn
Stores(cellStateIn, g, ids) ==
  {<<r.index, r.value>> : r \in {computeMain(cellStateIn, g, id) : id \in ids}}

\* The destination buffers a set of stores can leave. No invocation reads the
\* destination, so the order of the invocations shows only where several of
\* them store to one cell: then any of the stored values may stay. A cell no
\* invocation stores to keeps its content.
Outcomes(writes, cellStateOut, g) ==
  LET stored == {<<i, IF \E w \in writes : w[1] = i
                      THEN {w[2] : w \in {v \in writes : v[1] = i}}
                      ELSE {cellStateOut[i]}>> : i \in Cells(g)}
      raced == {s[1] : s \in {r \in stored : Cardinality(r[2]) > 1}}
      picks == {p \in [raced -> {w[2] : w \in writes}] :
                  \A i \in raced : <<i, p[i]>> \in writes}
  IN  { [i \in Cells(g) |-> IF i \in raced THEN p[i]
                            ELSE CHOOSE v \in UNION {s[2] : s \in stored} :
                                   \E s \in stored : s[1] = i /\ s[2] = {v}] : p \in picks }

\* computePass.dispatchWorkgroups(countX, countY)
Dispatch(cellStateIn, cellStateOut, g, countX, countY) ==
  Outcomes(Stores(cellStateIn, g, GlobalIds(countX, countY)), cellStateOut, g)

---------------------------------------------------------------------------
(* Initialization: main() *)

GRID_SIZE == grid[1]

\* part_000: every third cell of buffer A is alive with Math.random() > 0.6
RandomSeeds(g) ==
  LET third == {i \in Cells(g) : i % 3 = 0}
  IN  {[i \in Cells(g) |-> IF i \in alive THEN 1 ELSE 0] : alive \in SUBSET third}

\* main.js: every third cell of buffer A is alive
ThirdSeed(g) == [i \in Cells(g) |-> IF i % 3 = 0 THEN 1 ELSE 0]

\* both variants: buffer B holds i % 2
AlternatingSeed(g) == [i \in Cells(g) |-> i % 2]

\* uniformBindGroups[i]: binding 1 is read (cellStateIn, cellState), binding 2
\* is written (cellStateOut); main.js binds binding 1 to the same buffers
uniformBindGroupsAliased ==
  << [binding1 |-> 0, binding2 |-> 0],
     [binding1 |-> 1, binding2 |-> 0] >>

uniformBindGroups ==
  << [binding1 |-> 0, binding2 |-> 1],
     [binding1 |-> 1, binding2 |-> 0] >>

\* grid sides of a run of the program as shipped: like GRID_SIZE = 32, powers of two
GridSizes == {1, 2, 4}

Idle ==
  /\ step = 0
  /\ submitted = 0
  /\ queue = <<>>
  /\ computed = FALSE
  /\ lastSubmitted = None
  /\ lastCompute = None
  /\ displayed = None
  /\ lastWriter = [b \in 0..1 |-> 0]
  /\ inv = [kind |-> "none"]

\* main() has returned after setInterval(updateGrid, UPDATE_INTERVAL)
Running == [pc |-> "running", errors |-> <<>>, interval |-> TRUE, thrown |-> 0]

Init ==
  /\ variant \in {"simulation", "renderOnly"}
  /\ \E n \in GridSizes : grid = <<n, n>>
  /\ seed \in (IF variant = "simulation" THEN RandomSeeds(grid) ELSE {ThirdSeed(grid)})
  /\ cellStateStorageBuffer = [b \in 0..1 |-> IF b = 0 THEN seed ELSE AlternatingSeed(grid)]
  /\ horizon = MaxStep
  /\ host = Running
  /\ Idle

---------------------------------------------------------------------------
(* The frame: updateGrid, and the device executing what it submitted *)

\* computePass.setBindGroup(0, uniformBindGroups[step % 2]), before step += 1
ComputeBindAfterIncrement(s) == (s + 1) % 2

ComputeBindFixed(s) == 0

ComputeBind(s) == s % 2

\* passEncoder.setBindGroup(0, uniformBindGroups[step % 2]), after step += 1
RenderBindBeforeIncrement(s) == (s - 1) % 2

RenderBindFixed(s) == 0

RenderBind(s) == s % 2

\* part_000: updateGrid, called by the interval timer
UpdateGridSimulation ==
  /\ variant = "simulation"
  /\ host.interval
  /\ step < horizon
  /\ Len(queue) < MaxPending
  /\ LET cb == [frame |-> submitted + 1,
                step |-> step + 1,
                hasCompute |-> TRUE,
                compute |-> ComputeBind(step),
                render |-> RenderBind(step + 1)]
     IN  /\ queue' = Append(queue, cb)
         /\ lastSubmitted' = cb
  /\ step' = step + 1
  /\ submitted' = submitted + 1
  /\ UNCHANGED <<variant, grid, cellStateStorageBuffer, computed, lastCompute,
                 displayed, lastWriter, seed, horizon, host, inv>>

\* main.js: an updateGrid that selects the bind group before step += 1
UpdateGridRenderOnlyLateIncrement ==
  /\ variant = "renderOnly"
  /\ host.interval
  /\ step < horizon
  /\ Len(queue) < MaxPending
  /\ LET cb == [frame |-> submitted + 1,
                step |-> step + 1,
                hasCompute |-> FALSE,
                compute |-> 0,
                render |-> RenderBind(step)]
     IN  /\ queue' = Append(queue, cb)
         /\ lastSubmitted' = cb
  /\ step' = step + 1
  /\ submitted' = submitted + 1
  /\ UNCHANGED <<variant, grid, cellStateStorageBuffer, computed, lastCompute,
                 displayed, lastWriter, seed, horizon, host, inv>>

\* main.js: updateGrid, called by the interval timer
UpdateGridRenderOnly ==
  /\ variant = "renderOnly"
  /\ host.interval
  /\ step < horizon
  /\ Len(queue) < MaxPending
  /\ LET cb == [frame |-> submitted + 1,
                step |-> step + 1,
                hasCompute |-> FALSE,
                compute |-> 0,
                render |-> RenderBind(step + 1)]
     IN  /\ queue' = Append(queue, cb)
         /\ lastSubmitted' = cb
  /\ step' = step + 1
  /\ submitted' = submitted + 1
  /\ UNCHANGED <<variant, grid, cellStateStorageBuffer, computed, lastCompute,
                 displayed, lastWriter, seed, horizon, host, inv>>

\* the device runs the compute pass of the oldest command buffer
ComputePass ==
  /\ queue # <<>>
  /\ Head(queue).hasCompute
  /\ ~computed
  /\ LET cb == Head(queue)
         src == uniformBindGroups[cb.compute + 1].binding1
         dst == uniformBindGroups[cb.compute + 1].binding2
     IN  /\ \E out \in Dispatch(cellStateStorageBuffer[src], cellStateStorageBuffer[dst],
                                grid, WORKGROUP_COUNT(GRID_SIZE), WORKGROUP_COUNT(GRID_SIZE)) :
               cellStateStorageBuffer' = [cellStateStorageBuffer EXCEPT ![dst] = out]
         /\ lastCompute' = [frame |-> cb.frame, step |-> cb.step, src |-> src, dst |-> dst]
         /\ lastWriter' = [lastWriter EXCEPT ![dst] = cb.frame]
  /\ computed' = TRUE
  /\ UNCHANGED <<variant, grid, step, submitted, queue, lastSubmitted, displayed, seed,
                 horizon, host, inv>>

\* a render pass that does not wait for the compute pass encoded before it
RenderPassUnordered ==
  /\ queue # <<>>
  /\ LET cb == Head(queue)
         buf == uniformBindGroups[cb.render + 1].binding1
     IN  displayed' = [frame |-> cb.frame,
                       buffer |-> buf,
                       cells |-> [i \in 0 .. (GRID_SIZE * GRID_SIZE - 1) |->
                                    cellStateStorageBuffer[buf][i]]]
  /\ queue' = Tail(queue)
  /\ computed' = FALSE
  /\ UNCHANGED <<variant, grid, cellStateStorageBuffer, step, submitted, lastSubmitted,
                 lastCompute, lastWriter, seed, horizon, host, inv>>

\* the device runs the render pass of the oldest command buffer, which ends it:
\* GRID_SIZE * GRID_SIZE instances, each reading cellState[instance]
RenderPass ==
  /\ queue # <<>>
  /\ Head(queue).hasCompute => computed
  /\ LET cb == Head(queue)
         buf == uniformBindGroups[cb.render + 1].binding1
     IN  displayed' = [frame |-> cb.frame,
                       buffer |-> buf,
                       cells |-> [i \in 0 .. (GRID_SIZE * GRID_SIZE - 1) |->
                                    cellStateStorageBuffer[buf][i]]]
  /\ queue' = Tail(queue)
  /\ computed' = FALSE
  /\ UNCHANGED <<variant, grid, cellStateStorageBuffer, step, submitted, lastSubmitted,
                 lastCompute, lastWriter, seed, horizon, host, inv>>

Next ==
  \/ UpdateGridSimulation
  \/ UpdateGridRenderOnly
  \/ ComputePass
  \/ RenderPass

Spec == Init /\ [][Next]_vars

---------------------------------------------------------------------------
(* Runs in which a call of updateGrid can throw *)

\* where a call can be left by an exception, relative to step += 1: part_000
\* increments between computePass.end() and context.getCurrentTexture(),
\* main.js increments first
ThrowPoints(v) ==
  IF v = "simulation" THEN {"encodeCompute", "encodeRender", "submit"}
  ELSE {"encodeRender", "submit"}

\* updateGrid, called by the interval timer, throws at one of its device calls:
\* nothing is submitted; the exception leaves the callback, the timer stays
UpdateGridThrows ==
  /\ host.interval
  /\ step < horizon
  /\ host.thrown < MaxThrown
  /\ \E at \in ThrowPoints(variant) :
       step' = IF at = "encodeCompute" THEN step ELSE step + 1
  /\ host' = [host EXCEPT !.thrown = @ + 1]
  /\ UNCHANGED <<variant, grid, cellStateStorageBuffer, queue, computed, lastSubmitted,
                 lastCompute, displayed, lastWriter, seed, submitted, horizon, inv>>

NextFailure ==
  \/ UpdateGridSimulation
  \/ UpdateGridRenderOnly
  \/ UpdateGridThrows
  \/ ComputePass
  \/ RenderPass

SpecFailure == Init /\ [][NextFailure]_vars

---------------------------------------------------------------------------
(* Runs from the load of the page: main() and the top-level try/catch *)

\* function showError(message): one more message on the page
showError(h, message) == [h EXCEPT !.errors = Append(@, message), !.pc = "stopped"]

\* what an awaited request can come to
Settled == {"object", "null", "rejects"}

InitMain ==
  /\ variant = "simulation"
  /\ \E n \in GridSizes : grid = <<n, n>>
  /\ seed = <<>>
  /\ cellStateStorageBuffer = [b \in 0..1 |-> <<>>]
  /\ horizon = MaxPatternStep
  /\ host = [pc |-> "main", errors |-> <<>>, interval |-> FALSE, thrown |-> 0]
  /\ Idle

\* main() up to its first await: if (!canvas) return showError(...);
\* if (!navigator.gpu) return showError(...); navigator.gpu.requestAdapter()
MainChecks ==
  /\ host.pc = "main"
  /\ \E canvas \in BOOLEAN : \E gpu \in BOOLEAN :
       host' = IF ~canvas THEN showError(host, "Canvas element not found")
               ELSE IF ~gpu THEN showError(host, "WebGPU not supported on this browser!")
               ELSE [host EXCEPT !.pc = "requestAdapter"]
  /\ UNCHANGED <<variant, grid, cellStateStorageBuffer, step, queue, computed,
                 lastSubmitted, lastCompute, displayed, lastWriter, seed, submitted,
                 horizon, inv>>

\* if (!adapter) without its return: showError, then adapter.requestDevice()
\* throws on null and the top-level catch calls showError again
MainAdapterFallsThrough ==
  /\ host.pc = "requestAdapter"
  /\ \E adapter \in Settled :
       host' = CASE adapter = "object" -> [host EXCEPT !.pc = "requestDevice"]
                 [] adapter = "null" ->
                      showError(showError(host, "Failed to find a suitable GPUAdapter device."),
                                "exception")
                 [] adapter = "rejects" -> showError(host, "exception")
  /\ UNCHANGED <<variant, grid, cellStateStorageBuffer, step, queue, computed,
                 lastSubmitted, lastCompute, displayed, lastWriter, seed, submitted,
                 horizon, inv>>

\* const adapter = await navigator.gpu.requestAdapter(); if (!adapter) return
\* showError(...); a rejection is caught by the top-level catch
MainAdapter ==
  /\ host.pc = "requestAdapter"
  /\ \E adapter \in Settled :
       host' = CASE adapter = "object" -> [host EXCEPT !.pc = "requestDevice"]
                 [] adapter = "null" ->
                      showError(host, "Failed to find a suitable GPUAdapter device.")
                 [] adapter = "rejects" -> showError(host, "exception")
  /\ UNCHANGED <<variant, grid, cellStateStorageBuffer, step, queue, computed,
                 lastSubmitted, lastCompute, displayed, lastWriter, seed, submitted,
                 horizon, inv>>

\* const device = await adapter.requestDevice(); if (!device) return showError(...)
MainDevice ==
  /\ host.pc = "requestDevice"
  /\ \E device \in Settled :
       host' = CASE device = "object" -> [host EXCEPT !.pc = "setup"]
                 [] device = "null" -> showError(host, "Failed to create a WebGPU device.")
                 [] device = "rejects" -> showError(host, "exception")
  /\ UNCHANGED <<variant, grid, cellStateStorageBuffer, step, queue, computed,
                 lastSubmitted, lastCompute, displayed, lastWriter, seed, submitted,
                 horizon, inv>>

\* the rest of main(): the context, the pipelines, the buffers and their
\* seeds, the bind groups, and in its last statement the timer; an exception
\* anywhere before is caught by the top-level catch
MainSetup ==
  /\ host.pc = "setup"
  /\ \E throws \in BOOLEAN :
       IF throws
       THEN /\ host' = showError(host, "exception")
            /\ UNCHANGED <<seed, cellStateStorageBuffer>>
       ELSE /\ host' = [host EXCEPT !.pc = "running", !.interval = TRUE]
            /\ seed' \in RandomSeeds(grid)
            /\ cellStateStorageBuffer' =
                 [b \in 0..1 |-> IF b = 0 THEN seed' ELSE AlternatingSeed(grid)]
  /\ UNCHANGED <<variant, grid, step, queue, computed, lastSubmitted, lastCompute,
                 displayed, lastWriter, submitted, horizon, inv>>

NextMain ==
  \/ MainChecks
  \/ MainAdapter
  \/ MainDevice
  \/ MainSetup
  \/ UpdateGridSimulation
  \/ ComputePass
  \/ RenderPass

SpecMain == InitMain /\ [][NextMain]_vars

---------------------------------------------------------------------------
(* Runs seeded with a caller-supplied pattern instead of the random one *)

PatternSeed(n, alive) ==
  [i \in 0 .. (n * n - 1) |-> IF <<i % n, i \div n>> \in alive THEN 1 ELSE 0]

SingleCell(n, x, y) == {<<x, y>>}

\* three cells in row y, centred on column x
HLine(n, x, y) == {<<(x + n - 1) % n, y>>, <<x, y>>, <<(x + 1) % n, y>>}

\* the 2x2 block whose corner of least coordinates is (x, y)
Block(n, x, y) ==
  {<<x, y>>, <<(x + 1) % n, y>>, <<x, (y + 1) % n>>, <<(x + 1) % n, (y + 1) % n>>}

PatternSeeds(n) ==
  {PatternSeed(n, SingleCell(n, c[1], c[2])) : c \in (0 .. n - 1) \X (0 .. n - 1)}
    \cup {PatternSeed(n, HLine(n, c[1], c[2])) : c \in (0 .. n - 1) \X (0 .. n - 1)}
    \cup {PatternSeed(n, Block(n, c[1], c[2])) : c \in (0 .. n - 1) \X (0 .. n - 1)}

InitPattern ==
  /\ variant = "simulation"
  /\ \E n \in 3 .. MaxGrid : grid = <<n, n>>
  /\ seed \in PatternSeeds(GRID_SIZE)
  /\ cellStateStorageBuffer = [b \in 0..1 |-> IF b = 0 THEN seed ELSE AlternatingSeed(grid)]
  /\ horizon = MaxPatternStep
  /\ host = Running
  /\ Idle

NextSimulation ==
  \/ UpdateGridSimulation
  \/ ComputePass
  \/ RenderPass

SpecPattern == InitPattern /\ [][NextSimulation]_vars

---------------------------------------------------------------------------
(* The shader functions on their own: one evaluation at a time *)

InvokeGrids == {g \in (1 .. MaxCells) \X (1 .. MaxCells) : g[1] * g[2] <= MaxCells}

\* the coordinates next to both ends of the u32 range
CoordSamples ==
  {U32(k) : k \in 0 .. MaxCoord} \cup {U32Sub(U32(0), U32(k)) : k \in 1 .. MaxCoord}

InitInvoke ==
  /\ variant = "simulation"
  /\ grid \in InvokeGrids
  /\ seed \in [Cells(grid) -> {0, 1}]
  /\ cellStateStorageBuffer = [b \in 0..1 |-> IF b = 0 THEN seed ELSE AlternatingSeed(grid)]
  /\ horizon = 0
  /\ host = Running
  /\ Idle

\* computeMain for one global invocation id of the dispatch, reading buffer A
Invoke ==
  /\ inv.kind = "none"
  /\ \E id \in GlobalIds(WORKGROUP_COUNT(grid[1]), WORKGROUP_COUNT(grid[2])) :
       inv' = computeMain(cellStateStorageBuffer[0], grid, id)
  /\ UNCHANGED <<variant, grid, cellStateStorageBuffer, step, queue, computed,
                 lastSubmitted, lastCompute, displayed, lastWriter, seed, submitted,
                 horizon, host>>

\* cellIndex for one coordinate pair, and for the pair moved by one grid width
\* and by one grid height in u32 arithmetic
EvalCellIndex ==
  /\ inv.kind = "none"
  /\ \E cell \in CoordSamples \X CoordSamples :
       inv' = [ kind |-> "cellIndex",
                cell |-> cell,
                index |-> cellIndex(grid, cell),
                indexPlusW |-> cellIndex(grid, <<U32Add(cell[1], U32(grid[1])), cell[2]>>),
                indexPlusH |-> cellIndex(grid, <<cell[1], U32Add(cell[2], U32(grid[2]))>>) ]
  /\ UNCHANGED <<variant, grid, cellStateStorageBuffer, step, queue, computed,
                 lastSubmitted, lastCompute, displayed, lastWriter, seed, submitted,
                 horizon, host>>

NextInvoke ==
  \/ Invoke
  \/ EvalCellIndex

SpecInvoke == InitInvoke /\ [][NextInvoke]_vars

---------------------------------------------------------------------------
(* The reference transition the claims are stated against: Life on the torus,
   computed over the integers *)

Offsets == {<<dx, dy>> \in (-1..1) \X (-1..1) : <<dx, dy>> # <<0, 0>>}

TorusIndex(w, h, x, y) == (((y % h) + h) % h) * w + (((x % w) + w) % w)

RECURSIVE SumOver(_, _)
SumOver(f, S) ==
  IF S = {} THEN 0
  ELSE LET e == CHOOSE e \in S : TRUE IN f[e] + SumOver(f, S \ {e})

LiveNeighbours(w, h, S, x, y) ==
  SumOver([o \in Offsets |-> S[TorusIndex(w, h, x + o[1], y + o[2])]], Offsets)

\* the cells 0..n-1 of f, as a sequence
RECURSIVE CellSeq(_, _)
CellSeq(f, n) == IF n = 0 THEN <<>> ELSE Append(CellSeq(f, n - 1), f[n - 1])

LifeStep(w, h, S) ==
  LET next == CellSeq([i \in 0 .. (w * h - 1) |->
                         LET n == LiveNeighbours(w, h, S, i % w, i \div w)
                         IN  IF n = 2 THEN S[i] ELSE IF n = 3 THEN 1 ELSE 0], w * h)
  IN  [i \in 0 .. (w * h - 1) |-> next[i + 1]]

RECURSIVE Generation(_, _, _, _)
Generation(w, h, S, k) ==
  IF k = 0 THEN S ELSE LifeStep(w, h, Generation(w, h, S, k - 1))

Alive(S) == {i \in DOMAIN S : S[i] = 1}

---------------------------------------------------------------------------
(* Claims *)

\* C1: every compute pass reads buffer s mod 2 and writes buffer (s+1) mod 2,
\* where s is the step counter before its updateGrid: two distinct buffers, and
\* the transition that brings the counter to N writes A when N is even, B when
\* N is odd, and reads the other one.
ComputeRoles(cb) ==
  LET N == cb.step
      src == uniformBindGroups[cb.compute + 1].binding1
      dst == uniformBindGroups[cb.compute + 1].binding2
  IN  /\ src = (N - 1) % 2
      /\ dst = N % 2
      /\ dst = (IF N % 2 = 0 THEN 0 ELSE 1)
      /\ src # dst

C1_ComputeRolesFollowParity ==
  /\ \A k \in 1 .. Len(queue) : queue[k].hasCompute => ComputeRoles(queue[k])
  /\ lastCompute.frame # 0 =>
       /\ lastCompute.src = (lastCompute.step - 1) % 2
       /\ lastCompute.dst = lastCompute.step % 2
       /\ lastCompute.src # lastCompute.dst

C1_Witness ==
  /\ lastCompute.frame = 2
  /\ lastCompute.src = 1
  /\ lastCompute.dst = 0

\* C2: the buffer the k-th frame renders holds the k-fold transition of the
\* seed written to buffer A; after the k-th compute pass its destination holds
\* generation k and its source still holds generation k-1.
C2_RenderedIsKthGeneration ==
  variant = "simulation" =>
    /\ displayed.frame # 0 =>
         displayed.cells = Generation(grid[1], grid[2], seed, displayed.frame)
    /\ lastCompute.frame # 0 =>
         /\ cellStateStorageBuffer[lastCompute.dst] =
              Generation(grid[1], grid[2], seed, lastCompute.frame)
         /\ cellStateStorageBuffer[lastCompute.src] =
              Generation(grid[1], grid[2], seed, lastCompute.frame - 1)

C2_Witness ==
  /\ variant = "simulation"
  /\ displayed.frame = 3
  /\ Alive(displayed.cells) # {}
  /\ displayed.cells # seed
  /\ displayed.cells # Generation(grid[1], grid[2], seed, 2)

\* C3: the buffer a frame's render pass reads is the one the compute pass of
\* the same frame wrote, and no compute pass of another frame has written it
\* since.
C3_RenderReadsOwnFrame ==
  [][(variant = "simulation" /\ displayed' # displayed) =>
       /\ lastCompute.frame = displayed'.frame
       /\ lastCompute.dst = displayed'.buffer
       /\ lastWriter[displayed'.buffer] = displayed'.frame]_vars

C3_Witness ==
  /\ variant = "simulation"
  /\ displayed.frame = 2
  /\ displayed.buffer = 0
  /\ Len(queue) = 1

\* C4: the buffer selected for rendering differs between any two consecutive
\* calls of updateGrid, in both variants.
C4_RenderBufferAlternates ==
  [][(lastSubmitted.frame # 0 /\ lastSubmitted' # lastSubmitted) =>
       uniformBindGroups[lastSubmitted'.render + 1].binding1 #
         uniformBindGroups[lastSubmitted.render + 1].binding1]_vars

C4_Witness ==
  /\ variant = "renderOnly"
  /\ lastSubmitted.frame = 3
  /\ displayed.frame = 2
  /\ displayed.buffer = 0

\* C5: the value one invocation stores is decided by its neighbour count n and
\* the cell's own source state s alone: s when n = 2, 1 when n = 3, 0 for every
\* other n in 0..8.
C5_ValueFollowsCountAndState ==
  inv.kind = "computeMain" =>
    /\ inv.activeNeighbors \in 0 .. 8
    /\ inv.state = cellStateStorageBuffer[0][inv.index]
    /\ inv.value = (IF inv.activeNeighbors = 2 THEN inv.state
                    ELSE IF inv.activeNeighbors = 3 THEN 1 ELSE 0)

C5_Witness ==
  /\ inv.kind = "computeMain"
  /\ inv.activeNeighbors = 2
  /\ inv.state = 1
  /\ inv.value = 1

\* the offsets of the eight reads of computeMain, in its order
ReadOffsets ==
  << <<1, 1>>, <<1, 0>>, <<1, -1>>, <<0, -1>>, <<-1, -1>>, <<-1, 0>>, <<-1, 1>>, <<0, 1>> >>

\* C6: for every grid and every in-range cell (x, y), the eight cells an
\* invocation reads are the toroidal neighbours ((y+dy) mod H) * W + ((x+dx) mod W),
\* and its neighbour count is their sum.
C6_ReadsAreTorusNeighbours ==
  (inv.kind = "computeMain" /\ inv.id[1] < grid[1] /\ inv.id[2] < grid[2]) =>
    /\ \A k \in 1 .. 8 :
         inv.reads[k] = TorusIndex(grid[1], grid[2],
                                   inv.id[1] + ReadOffsets[k][1],
                                   inv.id[2] + ReadOffsets[k][2])
    /\ inv.activeNeighbors =
         LiveNeighbours(grid[1], grid[2], cellStateStorageBuffer[0], inv.id[1], inv.id[2])

\* C7: cellIndex maps the in-range cells one to one onto 0 .. W*H-1, and for
\* every u32 coordinate pair cellIndex(x+W, y) = cellIndex(x, y) and
\* cellIndex(x, y+H) = cellIndex(x, y).
C7_IndexBijectiveAndPeriodic ==
  /\ \A i \in Cells(grid) :
       Cardinality({c \in (0 .. grid[1] - 1) \X (0 .. grid[2] - 1) :
                      cellIndex(grid, <<U32(c[1]), U32(c[2])>>) = i}) = 1
  /\ inv.kind = "cellIndex" =>
       /\ inv.indexPlusW = inv.index
       /\ inv.indexPlusH = inv.index

\* C8: on the 3x3 grid whose only live cell is (0,0), the invocation for cell
\* (0,0) counts 0 live neighbours and stores 0 to cell (0,0).
C8_LoneCellDies ==
  ( /\ grid = <<3, 3>>
    /\ cellStateStorageBuffer[0] = PatternSeed(3, SingleCell(3, 0, 0))
    /\ inv.kind = "computeMain"
    /\ inv.id = <<0, 0>> ) =>
    /\ inv.index = 0
    /\ inv.activeNeighbors = 0
    /\ inv.value = 0

\* three cells in column x, centred on row y
VLine(n, x, y) == {<<x, (y + n - 1) % n>>, <<x, y>>, <<x, (y + 1) % n>>}

\* C9: on the 4x4 grid seeded with a horizontal line of three cells in row 1,
\* the first frame's transition leaves the vertical line of three cells through
\* the same centre in buffer B, the second frame's transition leaves the seed
\* again in buffer A, and the two frames render just these.
C9_BlinkerOscillates ==
  \A cx \in 0 .. 3 :
    (grid = <<4, 4>> /\ seed = PatternSeed(4, HLine(4, cx, 1))) =>
      /\ lastCompute.frame = 1 =>
           /\ lastCompute.dst = 1
           /\ cellStateStorageBuffer[1] = PatternSeed(4, VLine(4, cx, 1))
      /\ lastCompute.frame = 2 =>
           /\ lastCompute.dst = 0
           /\ cellStateStorageBuffer[0] = seed
      /\ displayed.frame = 1 => displayed.cells = PatternSeed(4, VLine(4, cx, 1))
      /\ displayed.frame = 2 => displayed.cells = seed

C9_Witness ==
  /\ grid = <<4, 4>>
  /\ seed = PatternSeed(4, HLine(4, 1, 1))
  /\ displayed.frame = 2
  /\ displayed.cells = seed
  /\ cellStateStorageBuffer[1] = PatternSeed(4, VLine(4, 1, 1))

\* C10: on a grid of at least 4x4 cells whose only live cells are a 2x2 block
\* at any position, one transition leaves the destination equal to the source.
C10_BlockIsStill ==
  ( /\ GRID_SIZE >= 4
    /\ \E c \in (0 .. GRID_SIZE - 1) \X (0 .. GRID_SIZE - 1) :
         seed = PatternSeed(GRID_SIZE, Block(GRID_SIZE, c[1], c[2]))
    /\ lastCompute.frame = 1 ) =>
    cellStateStorageBuffer[lastCompute.dst] = seed

---------------------------------------------------------------------------
(* The dispatch as a whole *)

\* the command buffer whose compute pass the device runs next
ComputeIsNext == queue # <<>> /\ Head(queue).hasCompute /\ ~computed

ComputeSrc == uniformBindGroups[Head(queue).compute + 1].binding1

ComputeDst == uniformBindGroups[Head(queue).compute + 1].binding2

\* the dispatch of updateGrid on the buffers as they are now
AllIds == GlobalIds(WORKGROUP_COUNT(GRID_SIZE), WORKGROUP_COUNT(GRID_SIZE))

\* other contents the destination buffer could have held before the pass
OtherPriors(g) ==
  { [i \in Cells(g) |-> 0], [i \in Cells(g) |-> 1], [i \in Cells(g) |-> 1 - (i % 2)] }

\* C11: a compute pass stores to every cell of its destination, and the
\* destination it leaves is the one a second run from the same source leaves
\* whatever the destination held before: nothing of the prior content stays.
C11_DestinationForgetsPrior ==
  [][ (variant = "simulation" /\ lastCompute' # lastCompute) =>
        /\ ComputeIsNext
        /\ {w[1] : w \in Stores(cellStateStorageBuffer[ComputeSrc], grid, AllIds)} = Cells(grid)
        /\ \A prior \in OtherPriors(grid) :
             Dispatch(cellStateStorageBuffer[ComputeSrc], prior, grid,
                      WORKGROUP_COUNT(GRID_SIZE), WORKGROUP_COUNT(GRID_SIZE))
               = {cellStateStorageBuffer'[ComputeDst]} ]_vars

\* a pass has run on a 4 x 4 grid and left in B something else than B's seed
C11_Witness ==
  /\ grid = <<4, 4>>
  /\ lastCompute.frame = 1
  /\ lastCompute.dst = 1
  /\ cellStateStorageBuffer[1] # AlternatingSeed(grid)
  /\ cellStateStorageBuffer[1] \notin OtherPriors(grid)

\* C12: the invocations of one dispatch read only the source buffer, which none
\* of them writes; any two that store to one cell store one value; so every
\* order of the invocations leaves the same destination.
C12_DispatchIsDeterministic ==
  [][ (variant = "simulation" /\ lastCompute' # lastCompute) =>
        LET stores == Stores(cellStateStorageBuffer[ComputeSrc], grid, AllIds)
        IN  /\ ComputeSrc # ComputeDst
            /\ cellStateStorageBuffer'[ComputeSrc] = cellStateStorageBuffer[ComputeSrc]
            /\ \A v \in stores : \A w \in stores : v[1] = w[1] => v[2] = w[2]
            /\ Cardinality(Outcomes(stores, cellStateStorageBuffer[ComputeDst], grid)) = 1 ]_vars

\* a pass has run in which several invocations stored to one cell: on a 4 x 4
\* grid the 64 invocations of the 8 x 8 tile share 16 cells, some of them alive
C12_Witness ==
  /\ grid = <<4, 4>>
  /\ lastCompute.frame = 2
  /\ Cardinality(AllIds) > Cardinality(Cells(grid))
  /\ \E i \in Cells(grid) : cellStateStorageBuffer[lastCompute.dst][i] = 1
  /\ \E i \in Cells(grid) : cellStateStorageBuffer[lastCompute.dst][i] = 0

\* the invocations of the dispatch whose id lies on the grid
InRangeIds == {id \in AllIds : id[1] < grid[1] /\ id[2] < grid[2]}

\* C13: on a grid whose side is not a multiple of the tile side the dispatch
\* has invocations off the grid; each stores to an index of the grid, and the
\* destination the pass leaves is the one the invocations on the grid leave.
C13_OffGridInvocationsAreNoOps ==
  [][ (lastCompute' # lastCompute /\ GRID_SIZE % WORKGROUP_SIZE # 0) =>
        /\ AllIds \ InRangeIds # {}
        /\ \A w \in Stores(cellStateStorageBuffer[ComputeSrc], grid, AllIds \ InRangeIds) :
             w[1] \in Cells(grid)
        /\ Outcomes(Stores(cellStateStorageBuffer[ComputeSrc], grid, InRangeIds),
                    cellStateStorageBuffer[ComputeDst], grid)
             = {cellStateStorageBuffer'[ComputeDst]} ]_vars

---------------------------------------------------------------------------
(* The step counter and failed frames *)

\* C14: step is never negative and counts the frames whose command buffer has
\* been submitted: a call of updateGrid that throws before device.queue.submit
\* has not advanced it.
C14_StepCountsSubmittedFrames ==
  /\ step >= 0
  /\ step = submitted

\* C15: once a call of updateGrid has thrown, no later tick encodes or submits
\* a pass: the counter and the number of submitted frames stay as they are.
C15_FailedFrameIsFatal ==
  [][ host.thrown > 0 => (submitted' = submitted /\ lastSubmitted' = lastSubmitted) ]_vars

---------------------------------------------------------------------------
(* What the passes read and change *)

\* the buffer the render pass of the oldest command buffer reads
RenderSrc == uniformBindGroups[Head(queue).render + 1].binding1

\* C16: in every run, when a compute pass or a render pass of the simulation
\* reads buffer B, a compute pass has written B before, and a compute pass
\* stores to every cell: the i % 2 pattern B is created with is read by no pass.
C16_SeedOfBIsNeverRead ==
  [][ (variant = "simulation" /\
        \/ (lastCompute' # lastCompute /\ ComputeSrc = 1)
        \/ (displayed' # displayed /\ RenderSrc = 1)) =>
        /\ lastWriter[1] > 0
        /\ {cellIndex(grid, <<U32(id[1]), U32(id[2])>>) : id \in AllIds} = Cells(grid) ]_vars

---------------------------------------------------------------------------
(* Initialization failures *)

\* C17: when a check of main() fails or its setup throws, showError has been
\* called exactly once and the run has not started: no timer, no call of
\* updateGrid, step 0. The timer is registered only by a main() that passed.
C17_FailedInitNeverStarts ==
  /\ Len(host.errors) <= 1
  /\ host.pc = "stopped" <=> Len(host.errors) = 1
  /\ host.pc = "stopped" =>
       /\ ~host.interval
       /\ step = 0
       /\ submitted = 0
       /\ queue = <<>>
       /\ lastCompute = None
       /\ displayed = None
  /\ host.interval <=> host.pc = "running"
  /\ step > 0 => host.interval

\* main() has stopped at the adapter check, the only message shown is its own
C17_Witness ==
  /\ host.pc = "stopped"
  /\ host.errors = <<"Failed to find a suitable GPUAdapter device.">>

\* C18: a tick of the simulation submits one command buffer, holding one
\* compute pass and after it one render pass, and advances step by one; the
\* device runs the compute pass of a frame before its render pass, and the
\* passes of the next frame only after both: compute 1, render 1, compute 2, ...
C18_OneFramePerTickInOrder ==
  [][ variant = "simulation" =>
        /\ submitted' # submitted =>
             /\ submitted' = submitted + 1
             /\ step' = step + 1
             /\ queue' = Append(queue, lastSubmitted')
             /\ lastSubmitted'.frame = submitted'
             /\ lastSubmitted'.hasCompute
             /\ cellStateStorageBuffer' = cellStateStorageBuffer
        /\ lastCompute' # lastCompute =>
             /\ ~computed /\ computed'
             /\ lastCompute'.frame = displayed.frame + 1
             /\ lastCompute'.frame = Head(queue).frame
             /\ queue' = queue
        /\ displayed' # displayed =>
             /\ computed /\ ~computed'
             /\ displayed'.frame = lastCompute.frame
             /\ displayed'.frame = displayed.frame + 1
             /\ queue' = Tail(queue) ]_vars

\* the device is between the compute pass and the render pass of frame 3
\* while the command buffer of frame 4 waits behind it
C18_Witness ==
  /\ variant = "simulation"
  /\ displayed.frame = 2
  /\ lastCompute.frame = 3
  /\ computed
  /\ Len(queue) = 2
  /\ queue[2].frame = 4

\* C19: a compute pass changes no buffer but its destination: its source, the
\* grid uniform, the pair of buffers and the length of each stay; a render
\* pass and the encoding of a frame change no buffer at all.
C19_FrameChangesOnlyDestination ==
  [][ /\ grid' = grid
      /\ DOMAIN cellStateStorageBuffer' = DOMAIN cellStateStorageBuffer
      /\ \A b \in DOMAIN cellStateStorageBuffer :
           DOMAIN cellStateStorageBuffer'[b] = DOMAIN cellStateStorageBuffer[b]
      /\ lastCompute' # lastCompute =>
           \A b \in DOMAIN cellStateStorageBuffer :
             b # lastCompute'.dst => cellStateStorageBuffer'[b] = cellStateStorageBuffer[b]
      /\ lastCompute' # lastCompute =>
           cellStateStorageBuffer'[ComputeSrc] = cellStateStorageBuffer[ComputeSrc]
      /\ lastCompute' = lastCompute =>
           cellStateStorageBuffer' = cellStateStorageBuffer ]_vars

\* the second compute pass has changed its destination A, which no longer
\* holds the seed, and a render pass has run
C19_Witness ==
  /\ variant = "simulation"
  /\ lastCompute.frame = 2
  /\ lastCompute.dst = 0
  /\ cellStateStorageBuffer[0] # seed
  /\ displayed.frame = 1
  /\ DOMAIN cellStateStorageBuffer[0] = Cells(grid)
  /\ DOMAIN cellStateStorageBuffer[1] = Cells(grid)

\* C20: every cell of both buffers holds 0 or 1, and every invocation of the
\* compute pass the device runs next counts between 0 and 8 live neighbours
\* and stores 0 or 1.
C20_CellsAreBits ==
  /\ \A b \in 0..1 : \A i \in Cells(grid) : cellStateStorageBuffer[b][i] \in {0, 1}
  /\ ComputeIsNext =>
       \A id \in AllIds :
         LET r == computeMain(cellStateStorageBuffer[ComputeSrc], grid, id)
         IN  r.activeNeighbors \in 0..8 /\ r.value \in {0, 1}

\* the first compute pass has left live and dead cells in B, and an invocation
\* of the second counts three or more live neighbours there
C20_Witness ==
  /\ lastCompute.frame = 1
  /\ ComputeIsNext
  /\ ComputeSrc = 1
  /\ \E i \in Cells(grid) : cellStateStorageBuffer[1][i] = 1
  /\ \E i \in Cells(grid) : cellStateStorageBuffer[1][i] = 0
  /\ \E id \in AllIds :
       computeMain(cellStateStorageBuffer[1], grid, id).activeNeighbors >= 3

---------------------------------------------------------------------------
(* The render-only variant *)

\* C21: in the render-only variant no step changes a cell-state buffer: A
\* keeps its every-third-cell seed and B its i % 2 seed; the render pass of the
\* first tick shows B, and each later one the buffer the one before did not
\* show, so tick k shows B for odd k and A for even k.
C21_RenderOnlyAlternatesFromB ==
  [][ variant = "renderOnly" =>
        /\ cellStateStorageBuffer' = cellStateStorageBuffer
        /\ cellStateStorageBuffer[0] = ThirdSeed(grid)
        /\ cellStateStorageBuffer[1] = AlternatingSeed(grid)
        /\ lastCompute' = None
        /\ displayed' # displayed =>
             /\ displayed'.buffer = IF displayed.frame = 0 THEN 1 ELSE 1 - displayed.buffer
             /\ displayed'.buffer = displayed'.frame % 2
             /\ \A i \in Cells(grid) :
                  displayed'.cells[i] = cellStateStorageBuffer[displayed'.buffer][i] ]_vars

\* the third tick of the render-only variant shows B again on a 4 x 4 grid,
\* where the two seeds differ, and the fourth frame is submitted
C21_Witness ==
  /\ variant = "renderOnly"
  /\ grid = <<4, 4>>
  /\ displayed.frame = 3
  /\ displayed.buffer = 1
  /\ displayed.cells = AlternatingSeed(grid)
  /\ displayed.cells # ThirdSeed(grid)
  /\ step = 4

====
